---- MODULE Spec2Model ----
(***************************************************************************)
(* Model of firmware/esp32_edge_impulse/main/main.cpp: the wake-word       *)
(* inference task (warm-up, slice acquisition, classification, detection   *)
(* gate, alert, post-trigger capture, chunked streaming) together with the *)
(* websocket event callback that runs in the client's own task.            *)
(*                                                                         *)
(* Sizes are scaled down (see the bounds below); sample arithmetic, the    *)
(* little-endian byte layout and the base64 coding are modelled by what    *)
(* they compute.  Message timestamps (xTaskGetTickCount) and the constant  *)
(* device_id are left out of the modelled envelopes.                       *)
(***************************************************************************)
EXTENDS Integers, Sequences, FiniteSets, TLC

(* ------------------------------ bounds --------------------------------- *)

\* EI_CLASSIFIER_SLICE_SIZE (model metadata; one slice of the window), scaled
EI_CLASSIFIER_SLICE_SIZE == 2

\* chunk_frames of read_audio_slice / read_audio_to_buffer (256), scaled
chunk_frames == 2

\* AUDIO_SAMPLES_3S = SAMPLE_RATE * RECORD_DURATION_SEC (48000), scaled
AUDIO_SAMPLES_3S == 5

\* CHUNK_SAMPLES of send_audio_stream (2048), scaled
CHUNK_SAMPLES == 2

(* ------------------------- program constants --------------------------- *)

\* sizeof(int32_t): one bus word
bytes_per_sample == 4

\* raw_l >> 11
SHIFT_BITS == 11

INT16_MAX == 32767

INT16_MIN == -32768

\* VAD_THRESHOLD 2000.0f
VAD_THRESHOLD == 2000

\* EI_CLASSIFIER_THRESHOLD 0.6, in thousandths
EI_CLASSIFIER_THRESHOLD == 600

\* for (int i = 0; i < 8; i++) warm-up reads
WARMUP_READS == 8

\* for (int k = 0; k < 3; k++) LED pulses
ALERT_PULSES == 3

\* LED_PIN GPIO_NUM_2
LED_PIN == 2

\* if (strcmp(target, "light") == 0) gpio_num = 26
PIN_LIGHT == 26

\* else if (strcmp(target, "fan") == 0) gpio_num = 27
PIN_FAN == 27

\* int gpio_num = -1
NO_PIN == 0 - 1

\* current_rms is held in units of 1/RmsUnit (the quantum standing for the
\* float's precision near the threshold)
RmsUnit == 2 * 4

(* --------------------------- input domains ----------------------------- *)

\* left-channel bus words: 400 and -2800 after scaling (with low bits set, so
\* that the shift truncates); a slice of two has an RMS of 400, 2000 or 2800
BusWords == { (400 * 2048) + 5, -(2800 * 2048) + 1023 }

\* right-channel bus words (discarded by the reader)
RightWords == { -1 }

\* target-label confidences the classifier may report, in thousandths
ConfValues == { 599, 600, 650 }

\* the labels of the model (header comment: heymiaomiao / noise / unknown)
ei_classifier_inferencing_categories == << "noise", "heymiaomiao", "unknown" >>

EI_CLASSIFIER_LABEL_COUNT == Len(ei_classifier_inferencing_categories)

(* ----------------------------- arithmetic ------------------------------ *)

Pow2(n) == 2 ^ n

Min(a, b) == IF a < b THEN a ELSE b

\* channel scaling of one left word: arithmetic shift and clamp
ScaleSample(raw_l) ==
    LET s == raw_l \div Pow2(SHIFT_BITS)
    IN  IF s > INT16_MAX THEN INT16_MAX
        ELSE IF s < INT16_MIN THEN INT16_MIN
        ELSE s

\* (int16_t)s : wrap to 16 bits, two's complement
Int16(s) == ((s + 32768) % 65536) - 32768

\* number of significant bits of x >= 0
RECURSIVE BitLen(_)
BitLen(x) == IF x = 0 THEN 0 ELSE 1 + BitLen(x \div 2)

\* (float)x for an integer x >= 0: round to a 24-bit significand, ties to even
F32(x) ==
    IF BitLen(x) <= 24 THEN x
    ELSE LET q == Pow2(BitLen(x) - 24)
             r == x % q
             lo == x - r
         IN  IF 2 * r > q \/ (2 * r = q /\ (lo \div q) % 2 = 1) THEN lo + q ELSE lo

\* largest r with r * r <= x, by bisection on [lo, hi)
RECURSIVE ISqrtIn(_, _, _)
ISqrtIn(x, lo, hi) ==
    IF hi - lo <= 1 THEN lo
    ELSE LET mid == (lo + hi) \div 2
         IN  IF mid * mid <= x THEN ISqrtIn(x, mid, hi) ELSE ISqrtIn(x, lo, mid)

ISqrt(x) == ISqrtIn(x, 0, 46341)

\* sqrtf(sum_sq / num_mono_samples), in units of 1/RmsUnit
Rms(sumsq, n) == ISqrt((sumsq * RmsUnit * RmsUnit) \div n)

(* ------------------------- float32 arithmetic -------------------------- *)

\* width of a float's significand
MANT_BITS == 24

\* a float32 value >= 0 as m * 2^e, m = 0 or 2^23 <= m < 2^24
Fl(m, e) == [ m |-> m, e |-> e ]

FZero == Fl(0, 0)

\* 2^e * m with m of any width >= 1 bit, brought to 24 bits (no bit is lost:
\* callers pass m below 2^24, or 2^24 itself after a round-up)
Normalize(m, e) ==
    IF m = 0 THEN FZero
    ELSE IF BitLen(m) <= MANT_BITS
         THEN Fl(m * Pow2(MANT_BITS - BitLen(m)), e - (MANT_BITS - BitLen(m)))
         ELSE Fl(m \div Pow2(BitLen(m) - MANT_BITS), e + (BitLen(m) - MANT_BITS))

\* (float)x for an integer 0 <= x < 2^31
FloatOf(x) == Normalize(F32(x), 0)

\* t + r / den (0 <= r < den) rounded to the nearest integer, ties to even
RoundRem(t, r, den) ==
    IF 2 * r > den \/ (2 * r = den /\ t % 2 = 1) THEN t + 1 ELSE t

\* num / den rounded to the nearest integer, ties to even
RoundDiv(num, den) == RoundRem(num \div den, num % den, den)

\* x + y for floats x >= y > 0, correctly rounded: y is shifted to the
\* exponent of x, the bits shifted out decide the rounding
FAddOrdered(x, y) ==
    LET d == x.e - y.e
        sh == y.m \div Pow2(d)
        rem == y.m % Pow2(d)
        sum == x.m + sh
    IN  IF d > MANT_BITS + 1 THEN x
        ELSE IF sum < Pow2(MANT_BITS)
        THEN Normalize(RoundRem(sum, rem, Pow2(d)), x.e)
        ELSE Normalize(RoundRem(sum \div 2, (sum % 2) * Pow2(d) + rem, Pow2(d + 1)),
                       x.e + 1)

\* x + y in float arithmetic
FAdd(x, y) ==
    IF x.m = 0 THEN y
    ELSE IF y.m = 0 THEN x
    ELSE IF x.e > y.e \/ (x.e = y.e /\ x.m >= y.m) THEN FAddOrdered(x, y)
    ELSE FAddOrdered(y, x)

\* s / (n * 2^e) as a fraction of integers
Scaled(s, n, e) ==
    IF e >= 0 THEN [ num |-> s, den |-> n * Pow2(e) ]
    ELSE [ num |-> s * Pow2(0 - e), den |-> n ]

\* the float quotient s / (float)n of an integer-valued float s < 2^31 and a
\* small integer 1 <= n < 64, correctly rounded: the exponent e is the one with
\* 2^23 <= s / (n * 2^e) < 2^24
FDiv(s, n) ==
    IF s = 0 THEN FZero
    ELSE LET e0 == BitLen(s) - BitLen(n) - MANT_BITS
             q0 == Scaled(s, n, e0)
             e == IF q0.num >= q0.den * Pow2(MANT_BITS) THEN e0 + 1 ELSE e0
             q == Scaled(s, n, e)
         IN  Normalize(RoundDiv(q.num, q.den), e)

\* x / (float)n for a float x
FDivF(x, n) ==
    IF x.m = 0 THEN FZero
    ELSE Fl(FDiv(x.m, n).m, FDiv(x.m, n).e + x.e)

\* a 48-bit natural as two 24-bit limbs
Wide(hi, lo) == [ hi |-> hi + (lo \div Pow2(MANT_BITS)), lo |-> lo % Pow2(MANT_BITS) ]

\* n * n for n < 2^24
WideSquare(n) ==
    LET nh == n \div 4096
        nl == n % 4096
        c == 2 * nh * nl
    IN  Wide(nh * nh + (c \div 4096), (c % 4096) * 4096 + nl * nl)

WideLeq(a, b) == a.hi < b.hi \/ (a.hi = b.hi /\ a.lo <= b.lo)

\* largest n in [lo, hi) with n * n <= x
RECURSIVE WideSqrtIn(_, _, _)
WideSqrtIn(x, lo, hi) ==
    IF hi - lo <= 1 THEN lo
    ELSE LET mid == (lo + hi) \div 2
         IN  IF WideLeq(WideSquare(mid), x) THEN WideSqrtIn(x, mid, hi)
             ELSE WideSqrtIn(x, lo, mid)

\* sqrtf(q), correctly rounded: the significand n of the root is the integer
\* nearest to sqrt(q.m * 2^sh), sh = 24 for an even exponent and 23 for an odd
\* one (a tie cannot happen: (n + 1/2)^2 is not an integer)
Sqrtf(q) ==
    IF q.m = 0 THEN FZero
    ELSE LET even == q.e % 2 = 0
             x == IF even THEN Wide(q.m, 0)
                  ELSE Wide(q.m \div 2, (q.m % 2) * Pow2(MANT_BITS - 1))
             f == IF even THEN (q.e - MANT_BITS) \div 2
                  ELSE (q.e - (MANT_BITS - 1)) \div 2
             n0 == WideSqrtIn(x, Pow2(MANT_BITS - 1), Pow2(MANT_BITS))
             sq == WideSquare(n0)
             up == ~WideLeq(x, Wide(sq.hi, sq.lo + n0))
         IN  Normalize(IF up THEN n0 + 1 ELSE n0, f)

(* ------------------------ bytes and base64 ----------------------------- *)

\* the two bytes of an int16 sample as stored in memory (little-endian)
SampleBytes(s) ==
    LET u == (s + 65536) % 65536
    IN  << u % 256, u \div 256 >>

\* the raw bytes of audio_data[from+1 .. from+count] (0-based offset `from`)
RECURSIVE RawBytes(_, _, _)
RawBytes(buf, from, count) ==
    IF count = 0 THEN << >>
    ELSE SampleBytes(buf[from + 1]) \o RawBytes(buf, from + 1, count - 1)

\* the '=' padding character; the other characters are their 6-bit values
B64_PAD == 64

\* RFC 4648 base64 of a byte sequence, padded, no line breaks
RECURSIVE B64Encode(_)
B64Encode(b) ==
    IF Len(b) = 0 THEN << >>
    ELSE IF Len(b) = 1 THEN
        << b[1] \div 4, (b[1] % 4) * 16, B64_PAD, B64_PAD >>
    ELSE IF Len(b) = 2 THEN
        << b[1] \div 4, (b[1] % 4) * 16 + (b[2] \div 16), (b[2] % 16) * 4, B64_PAD >>
    ELSE
        << b[1] \div 4, (b[1] % 4) * 16 + (b[2] \div 16),
           (b[2] % 16) * 4 + (b[3] \div 64), b[3] % 64 >>
        \o B64Encode(SubSeq(b, 4, Len(b)))

\* encoded length of slen bytes
B64Len(slen) == 4 * ((slen + 2) \div 3)

\* mbedtls_base64_encode(dst, dlen, &olen, src, slen): the text written to
\* dst, nothing when dlen cannot hold the text and its terminator
MbedtlsBase64Encode(dlen, src) ==
    IF dlen < B64Len(Len(src)) + 1 THEN << >> ELSE B64Encode(src)

\* the peer's decoding of one data_base64 string
RECURSIVE B64Decode(_)
B64Decode(c) ==
    IF Len(c) < 4 THEN << >>
    ELSE LET b1 == c[1] * 4 + (c[2] \div 16)
             b2 == (c[2] % 16) * 16 + (c[3] \div 4)
             b3 == (c[3] % 4) * 64 + c[4]
             rest == B64Decode(SubSeq(c, 5, Len(c)))
         IN  IF c[3] = B64_PAD THEN << b1 >> \o rest
             ELSE IF c[4] = B64_PAD THEN << b1, b2 >> \o rest
             ELSE << b1, b2, b3 >> \o rest

\* the peer's view of a byte sequence as little-endian int16 samples
RECURSIVE BytesToSamples(_)
BytesToSamples(b) ==
    IF Len(b) < 2 THEN << >>
    ELSE << Int16(b[1] + 256 * b[2]) >> \o BytesToSamples(SubSeq(b, 3, Len(b)))

(* ------------------------------ messages ------------------------------- *)

\* the audio_start envelope (snprintf into start_json)
StartMsg(total, conf) ==
    [ type |-> "audio_start", total_samples |-> total, confidence |-> conf,
      chunk_index |-> -1, is_last |-> FALSE, data_base64 |-> << >> ]

\* one audio_chunk envelope (snprintf into json_buffer)
ChunkMsg(idx, last, b64) ==
    [ type |-> "audio_chunk", total_samples |-> -1, confidence |-> -1,
      chunk_index |-> idx, is_last |-> last, data_base64 |-> b64 ]

(* ------------------------------- state --------------------------------- *)

VARIABLES
    pc,                  \* position of the inference task
    ws_client,           \* TRUE when esp_websocket_client_init returned a handle
    ws_connected,        \* the connection-ready flag
    warm_i,              \* warm-up loop counter
    ei_slice_buffer,     \* float ei_slice_buffer[EI_CLASSIFIER_SLICE_SIZE]
    samples_read,        \* samples_read of the read call in progress
    sum_sq,              \* sum_sq of read_audio_slice
    current_rms,         \* current_rms of the cycle, in units of 1/RmsUnit
    bus_log,             \* history: left words delivered to the read call in progress
    result,              \* result.classification[i].value, in thousandths
    cls_out,             \* history: target confidence the classifier returned this cycle
    detected_confidence, \* local of the cycle
    wake_word_detected,  \* local of the cycle
    blink_k,             \* LED pulse counter k
    led,                 \* level of LED_PIN
    recording_buffer,    \* int16_t recording_buffer[AUDIO_SAMPLES_3S]
    recording_samples,
    recording_complete,
    success,             \* result of read_audio_to_buffer
    sample_count,        \* send_audio_stream argument
    confidence,          \* send_audio_stream argument
    samples_sent,
    chunk_idx,
    wire,                \* history: messages the transport accepted in this call
    sent,                \* result of send_audio_stream
    stream_exit,         \* history: the return statement send_audio_stream took
    last_res,            \* history: res of the latest run_classifier_continuous
    gpio_level,          \* levels of the output pins driven by handle_server_action
    panic,               \* TRUE once the event task made an invalid load (system stopped)
    xfer_parity          \* history: parity of the number of bus transfers made by a
                         \* reader call run on its own (ReadInit)

vars == << pc, ws_client, ws_connected, warm_i, ei_slice_buffer, samples_read,
           sum_sq, current_rms, bus_log, result, cls_out, detected_confidence,
           wake_word_detected, blink_k, led, recording_buffer, recording_samples,
           recording_complete, success, sample_count, confidence, samples_sent,
           chunk_idx, wire, sent, stream_exit, last_res, gpio_level, panic,
           xfer_parity >>

\* value of cls_out when the classifier returned nothing this cycle
NoConf == 0 - 1

audioVars == << ei_slice_buffer, samples_read, sum_sq, current_rms, bus_log >>

cycleVars == << result, cls_out, detected_confidence, wake_word_detected >>

recVars == << recording_buffer, recording_samples, recording_complete, success >>

streamVars == << sample_count, confidence, samples_sent, chunk_idx, wire, sent,
                stream_exit >>

wsVars == << ws_client, ws_connected >>

\* state written by handle_server_action only
cmdVars == << gpio_level, panic >>

\* history kept from cycle to cycle
histVars == << last_res >>

\* history of a reader call run on its own
readHist == << xfer_parity >>

(* --------------------------- the audio bus ----------------------------- *)

\* the interleaved stereo words of a transfer: left words lw, right word rw
I2sBuf(lw, rw) ==
    [ j \in 1 .. 2 * Len(lw) |-> IF j % 2 = 1 THEN lw[(j + 1) \div 2] ELSE rw ]

\* sequences of exactly n left words
LeftSeqs(n) == [ 1 .. n -> BusWords ]

\* outcomes of i2s_channel_read for a request of `frames` stereo frames whose
\* left words are drawn from `words`: an error, or ESP_OK with up to the
\* requested bytes (whole words)
TransfersOf(frames, words) ==
    { [ ret |-> "ESP_ERR_TIMEOUT", bytes_read |-> 0, i2s_buf |-> << >> ] }
    \cup
    { [ ret |-> "ESP_OK", bytes_read |-> b, i2s_buf |-> I2sBuf(lw, rw) ] :
        b \in { bytes_per_sample * w : w \in 0 .. 2 * frames },
        lw \in [ 1 .. frames -> words ], rw \in RightWords }

\* outcomes of i2s_channel_read for a request of `frames` stereo frames:
\* an error, or ESP_OK with up to the requested bytes (whole words)
Transfers(frames) ==
    { [ ret |-> "ESP_ERR_TIMEOUT", bytes_read |-> 0, i2s_buf |-> << >> ] }
    \cup
    { [ ret |-> "ESP_OK", bytes_read |-> b, i2s_buf |-> I2sBuf(lw, rw) ] :
        b \in { bytes_per_sample * w : w \in 0 .. 2 * frames },
        lw \in LeftSeqs(frames), rw \in RightWords }

\* faulty variant: every pass asks for a full chunk, whatever is left of the span
FramesToRead_FullChunk(num, done) == chunk_frames

\* frames_to_read = min(num - samples_read, chunk_frames)
FramesToRead(num, done) == Min(num - done, chunk_frames)

\* got_frames = bytes_read / (2 * bytes_per_sample)
GotFrames(t) == t.bytes_read \div (2 * bytes_per_sample)

\* raw_l = i2s_buf[i * 2], i counted from 0
RawLeft(i2s_buf, i) == i2s_buf[2 * i + 1]

\* the left words a transfer delivered
GotLeft(t) == [ i \in 1 .. GotFrames(t) |-> RawLeft(t.i2s_buf, i - 1) ]

\* (float)s for an integer s of either sign
FloatInt(s) == IF s < 0 THEN 0 - F32(0 - s) ELSE F32(s)

\* the for loop of read_audio_slice: out_buffer[samples_read + i] = (float)s
SliceStore(buf, done, t) ==
    [ j \in 1 .. Len(buf) |->
        IF j > done /\ j <= done + GotFrames(t)
        THEN FloatInt(ScaleSample(RawLeft(t.i2s_buf, j - done - 1)))
        ELSE buf[j] ]

\* the for loop of read_audio_slice: sum_sq += (float)(s * s)
RECURSIVE SumSqAfter(_, _, _)
SumSqAfter(sum, t, i) ==
    IF i >= GotFrames(t) THEN sum
    ELSE LET s == ScaleSample(RawLeft(t.i2s_buf, i))
         IN  SumSqAfter(F32(sum + F32(s * s)), t, i + 1)

\* the for loop of read_audio_slice with sum_sq held as a float of any
\* magnitude: sum_sq += (float)(s * s)
RECURSIVE SumSqAfterF(_, _, _)
SumSqAfterF(sum, t, i) ==
    IF i >= GotFrames(t) THEN sum
    ELSE LET s == ScaleSample(RawLeft(t.i2s_buf, i))
         IN  SumSqAfterF(FAdd(sum, FloatOf(s * s)), t, i + 1)

\* faulty variant: the mean of the squares is returned without its root
RmsF_NoRoot(sum, n) == FDivF(sum, n)

\* *out_rms = sqrtf(sum_sq / num_mono_samples), as a float
RmsF(sum, n) == Sqrtf(FDivF(sum, n))

\* faulty variant: the capture narrows the shifted word without clamping it
RecordStore_NoClamp(buf, done, t) ==
    [ j \in 1 .. Len(buf) |->
        IF j > done /\ j <= done + GotFrames(t)
        THEN Int16(RawLeft(t.i2s_buf, j - done - 1) \div Pow2(SHIFT_BITS))
        ELSE buf[j] ]

\* the for loop of read_audio_to_buffer: out_buffer[samples_read + i] = (int16_t)s
RecordStore(buf, done, t) ==
    [ j \in 1 .. Len(buf) |->
        IF j > done /\ j <= done + GotFrames(t)
        THEN Int16(ScaleSample(RawLeft(t.i2s_buf, j - done - 1)))
        ELSE buf[j] ]

(* ------------------------- the inference task -------------------------- *)

\* top of while (1): float current_rms = 0.0f, and a fresh read call; the
\* locals of the finished cycle no longer exist
LoopTop ==
    /\ pc' = "listening"
    /\ current_rms' = 0
    /\ samples_read' = 0
    /\ sum_sq' = 0
    /\ bus_log' = << >>
    /\ cls_out' = NoConf
    /\ detected_confidence' = 0
    /\ wake_word_detected' = FALSE
    /\ blink_k' = 0
    /\ success' = FALSE
    /\ sample_count' = 0
    /\ confidence' = 0
    /\ samples_sent' = 0
    /\ chunk_idx' = 0
    /\ wire' = << >>
    /\ sent' = FALSE
    /\ stream_exit' = "none"

\* what LoopTop leaves alone
loopKept == << last_res, ws_client, ws_connected, gpio_level, panic, xfer_parity, warm_i, ei_slice_buffer, result, led,
               recording_buffer, recording_samples, recording_complete >>

\* the end of one warm-up read, whatever it returned: i++ and the next read,
\* or "Started." and the first cycle
WarmupNext ==
    IF warm_i + 1 < WARMUP_READS
    THEN /\ warm_i' = warm_i + 1
         /\ pc' = "warmup"
         /\ samples_read' = 0
         /\ sum_sq' = 0
         /\ bus_log' = << >>
         /\ UNCHANGED << current_rms, cycleVars, blink_k, success, streamVars >>
    ELSE /\ warm_i' = warm_i + 1
         /\ LoopTop
         /\ UNCHANGED result

\* one bus transfer of read_audio_slice(ei_slice_buffer, SLICE, NULL) in the
\* warm-up loop; the call's result is ignored
WarmupRead ==
    /\ pc = "warmup"
    /\ \E t \in Transfers(FramesToRead(EI_CLASSIFIER_SLICE_SIZE, samples_read)) :
        IF t.ret # "ESP_OK"
        THEN /\ WarmupNext
             /\ UNCHANGED ei_slice_buffer
        ELSE /\ ei_slice_buffer' = SliceStore(ei_slice_buffer, samples_read, t)
             /\ IF samples_read + GotFrames(t) < EI_CLASSIFIER_SLICE_SIZE
                THEN /\ samples_read' = samples_read + GotFrames(t)
                     /\ sum_sq' = SumSqAfter(sum_sq, t, 0)
                     /\ bus_log' = bus_log \o GotLeft(t)
                     /\ UNCHANGED << pc, warm_i, current_rms, cycleVars, blink_k,
                                     success, streamVars >>
                ELSE WarmupNext
    /\ UNCHANGED << histVars, wsVars, cmdVars, readHist, led, recording_buffer, recording_samples,
                    recording_complete >>

\* faulty variant: the result of read_audio_slice is ignored, as in the warm-up loop
ListenRead_IgnoreResult ==
    /\ pc = "listening"
    /\ \E t \in Transfers(FramesToRead(EI_CLASSIFIER_SLICE_SIZE, samples_read)) :
        IF t.ret # "ESP_OK"
        THEN /\ pc' = "classify"
             /\ UNCHANGED audioVars
        ELSE /\ ei_slice_buffer' = SliceStore(ei_slice_buffer, samples_read, t)
             /\ samples_read' = samples_read + GotFrames(t)
             /\ sum_sq' = SumSqAfter(sum_sq, t, 0)
             /\ bus_log' = bus_log \o GotLeft(t)
             /\ IF samples_read + GotFrames(t) < EI_CLASSIFIER_SLICE_SIZE
                THEN UNCHANGED << pc, current_rms >>
                ELSE /\ current_rms' = Rms(SumSqAfter(sum_sq, t, 0),
                                           EI_CLASSIFIER_SLICE_SIZE)
                     /\ pc' = "classify"
    /\ UNCHANGED << histVars, wsVars, cmdVars, readHist, warm_i, cycleVars, blink_k, led, recVars,
                    streamVars >>

\* faulty variant: the classifier runs after the first transfer, the slice full or not
ListenRead_ClassifyPartial ==
    /\ pc = "listening"
    /\ \E t \in Transfers(FramesToRead(EI_CLASSIFIER_SLICE_SIZE, samples_read)) :
        IF t.ret # "ESP_OK"
        THEN /\ pc' = "retry_delay"
             /\ UNCHANGED audioVars
        ELSE /\ ei_slice_buffer' = SliceStore(ei_slice_buffer, samples_read, t)
             /\ samples_read' = samples_read + GotFrames(t)
             /\ sum_sq' = SumSqAfter(sum_sq, t, 0)
             /\ bus_log' = bus_log \o GotLeft(t)
             /\ current_rms' = Rms(SumSqAfter(sum_sq, t, 0), EI_CLASSIFIER_SLICE_SIZE)
             /\ pc' = "classify"
    /\ UNCHANGED << histVars, wsVars, cmdVars, readHist, warm_i, cycleVars, blink_k, led, recVars,
                    streamVars >>

\* one bus transfer of read_audio_slice(ei_slice_buffer, SLICE, &current_rms)
\* in the listening loop
ListenRead ==
    /\ pc = "listening"
    /\ \E t \in Transfers(FramesToRead(EI_CLASSIFIER_SLICE_SIZE, samples_read)) :
        IF t.ret # "ESP_OK"
        THEN /\ pc' = "retry_delay"
             /\ UNCHANGED audioVars
        ELSE /\ ei_slice_buffer' = SliceStore(ei_slice_buffer, samples_read, t)
             /\ samples_read' = samples_read + GotFrames(t)
             /\ sum_sq' = SumSqAfter(sum_sq, t, 0)
             /\ bus_log' = bus_log \o GotLeft(t)
             /\ IF samples_read + GotFrames(t) < EI_CLASSIFIER_SLICE_SIZE
                THEN UNCHANGED << pc, current_rms >>
                ELSE /\ current_rms' = Rms(SumSqAfter(sum_sq, t, 0),
                                           EI_CLASSIFIER_SLICE_SIZE)
                     /\ pc' = "classify"
    /\ UNCHANGED << histVars, wsVars, cmdVars, readHist, warm_i, cycleVars, blink_k, led, recVars, streamVars >>

\* vTaskDelay(100); continue
RetryDelay ==
    /\ pc = "retry_delay"
    /\ LoopTop
    /\ UNCHANGED loopKept

\* memcpy(out_ptr, ei_slice_buffer + offset, length * sizeof(float)): what the
\* classifier's data accessor hands over
ei_audio_signal_get_data(offset, length) ==
    [ j \in 1 .. length |-> ei_slice_buffer[offset + j] ]

\* the classification of the target label in a result r
TargetResult(c) ==
    [ i \in 1 .. EI_CLASSIFIER_LABEL_COUNT |->
        IF ei_classifier_inferencing_categories[i] = "heymiaomiao" THEN c
        ELSE IF ei_classifier_inferencing_categories[i] = "noise" THEN 1000 - c
        ELSE 0 ]

Results == { TargetResult(c) : c \in ConfValues }

\* faulty variant: no continue after "ERR: Inference failed", the gate runs on result
Classify_FallThrough ==
    /\ pc = "classify"
    /\ \/ \E c \in ConfValues :
            /\ result' = TargetResult(c)
            /\ cls_out' = c
            /\ last_res' = "EI_IMPULSE_OK"
       \/ \E r \in Results \cup { result } :
            /\ result' = r
            /\ last_res' = "EI_IMPULSE_ERROR"
            /\ UNCHANGED cls_out
    /\ pc' = "gate"
    /\ UNCHANGED << warm_i, audioVars, detected_confidence, wake_word_detected,
                    blink_k, led, recVars, streamVars, wsVars, cmdVars, readHist >>

\* run_classifier_continuous over the slice: success with fresh scores, or a
\* failure that leaves in result whatever it may (the old scores or others)
Classify ==
    /\ pc = "classify"
    /\ \/ \E c \in ConfValues :
            /\ result' = TargetResult(c)
            /\ cls_out' = c
            /\ last_res' = "EI_IMPULSE_OK"
            /\ pc' = "gate"
            /\ UNCHANGED << warm_i, ei_slice_buffer, led, recording_buffer,
                            recording_samples, recording_complete,
                            audioVars, detected_confidence, wake_word_detected,
                            blink_k, success, streamVars >>
       \/ \E r \in Results \cup { result } :
            /\ result' = r
            /\ last_res' = "EI_IMPULSE_ERROR"
            /\ LoopTop
            /\ UNCHANGED << warm_i, ei_slice_buffer, led, recording_buffer,
                            recording_samples, recording_complete >>
    /\ UNCHANGED << wsVars, cmdVars, readHist >>

\* faulty variant: current_rms >= VAD_THRESHOLD
GateTest_RmsInclusive(conf, rms) ==
    conf >= EI_CLASSIFIER_THRESHOLD /\ rms >= VAD_THRESHOLD * RmsUnit

\* faulty variant: the energy test left out
GateTest_NoVad(conf, rms) == conf >= EI_CLASSIFIER_THRESHOLD

\* detected_confidence >= EI_CLASSIFIER_THRESHOLD && current_rms > VAD_THRESHOLD
GateTest(conf, rms) ==
    conf >= EI_CLASSIFIER_THRESHOLD /\ rms > VAD_THRESHOLD * RmsUnit

\* the label loop of the gate: [conf, wake] after labels i .. LABEL_COUNT
RECURSIVE GateLoop(_, _, _, _)
GateLoop(r, rms, i, acc) ==
    IF i > EI_CLASSIFIER_LABEL_COUNT THEN acc
    ELSE IF ei_classifier_inferencing_categories[i] = "heymiaomiao"
         THEN GateLoop(r, rms, i + 1,
                [ conf |-> r[i],
                  wake |-> IF GateTest(r[i], rms) THEN TRUE ELSE acc.wake ])
         ELSE GateLoop(r, rms, i + 1, acc)

\* wake_word_detected / detected_confidence of the cycle, then if (wake_word_detected)
Gate ==
    /\ pc = "gate"
    /\ LET g == GateLoop(result, current_rms, 1, [ conf |-> 0, wake |-> FALSE ])
       IN  IF g.wake
           THEN /\ detected_confidence' = g.conf
                /\ wake_word_detected' = TRUE
                /\ blink_k' = 0
                /\ pc' = "alert_on"
                /\ UNCHANGED << audioVars, result, cls_out, success, streamVars >>
           ELSE LoopTop
    /\ UNCHANGED loopKept

\* gpio_set_level(LED_PIN, 1); vTaskDelay(100)
AlertOn ==
    /\ pc = "alert_on"
    /\ led' = 1
    /\ pc' = "alert_off"
    /\ UNCHANGED << histVars, wsVars, cmdVars, readHist, warm_i, audioVars, cycleVars, blink_k, recVars, streamVars >>

\* faulty variant: recording_samples and recording_complete not reset before the capture
AlertOff_NoReset ==
    /\ pc = "alert_off"
    /\ led' = 0
    /\ blink_k' = blink_k + 1
    /\ IF blink_k + 1 < ALERT_PULSES
       THEN /\ pc' = "alert_on"
            /\ UNCHANGED << audioVars, recVars >>
       ELSE /\ pc' = "capture"
            /\ samples_read' = 0
            /\ bus_log' = << >>
            /\ UNCHANGED << ei_slice_buffer, sum_sq, current_rms, recVars >>
    /\ UNCHANGED << histVars, wsVars, cmdVars, readHist, warm_i, cycleVars, streamVars >>

\* gpio_set_level(LED_PIN, 0); vTaskDelay(100); k++; after the last pulse
\* recording_samples = 0, recording_complete = false and the capture call
AlertOff ==
    /\ pc = "alert_off"
    /\ led' = 0
    /\ blink_k' = blink_k + 1
    /\ IF blink_k + 1 < ALERT_PULSES
       THEN /\ pc' = "alert_on"
            /\ UNCHANGED << audioVars, recVars >>
       ELSE /\ pc' = "capture"
            /\ recording_samples' = 0
            /\ recording_complete' = FALSE
            /\ samples_read' = 0
            /\ bus_log' = << >>
            /\ UNCHANGED << ei_slice_buffer, sum_sq, current_rms, recording_buffer,
                            success >>
    /\ UNCHANGED << histVars, wsVars, cmdVars, readHist, warm_i, cycleVars, streamVars >>

\* faulty variant: the capture also feeds what it reads to the slice buffer
CaptureRead_FeedSlice ==
    /\ pc = "capture"
    /\ \E t \in Transfers(FramesToRead(AUDIO_SAMPLES_3S, samples_read)) :
        IF t.ret # "ESP_OK"
        THEN /\ success' = FALSE
             /\ pc' = "captured"
             /\ UNCHANGED << recording_buffer, ei_slice_buffer, samples_read, bus_log >>
        ELSE /\ recording_buffer' = RecordStore(recording_buffer, samples_read, t)
             /\ ei_slice_buffer' = SliceStore(ei_slice_buffer,
                                              samples_read % EI_CLASSIFIER_SLICE_SIZE, t)
             /\ samples_read' = samples_read + GotFrames(t)
             /\ bus_log' = bus_log \o GotLeft(t)
             /\ IF samples_read + GotFrames(t) < AUDIO_SAMPLES_3S
                THEN UNCHANGED << pc, success >>
                ELSE /\ success' = TRUE
                     /\ pc' = "captured"
    /\ UNCHANGED << histVars, wsVars, cmdVars, readHist, warm_i, sum_sq, current_rms, cycleVars,
                    blink_k, led, recording_samples, recording_complete, streamVars >>

\* one bus transfer of read_audio_to_buffer(recording_buffer, AUDIO_SAMPLES_3S)
CaptureRead ==
    /\ pc = "capture"
    /\ \E t \in Transfers(FramesToRead(AUDIO_SAMPLES_3S, samples_read)) :
        IF t.ret # "ESP_OK"
        THEN /\ success' = FALSE
             /\ pc' = "captured"
             /\ UNCHANGED << recording_buffer, samples_read, bus_log >>
        ELSE /\ recording_buffer' = RecordStore(recording_buffer, samples_read, t)
             /\ samples_read' = samples_read + GotFrames(t)
             /\ bus_log' = bus_log \o GotLeft(t)
             /\ IF samples_read + GotFrames(t) < AUDIO_SAMPLES_3S
                THEN UNCHANGED << pc, success >>
                ELSE /\ success' = TRUE
                     /\ pc' = "captured"
    /\ UNCHANGED << histVars, wsVars, cmdVars, readHist, warm_i, ei_slice_buffer, sum_sq, current_rms, cycleVars,
                    blink_k, led, recording_samples, recording_complete, streamVars >>

\* faulty variant: send_audio_stream called whatever the capture returned
AfterCapture_AlwaysStream ==
    /\ pc = "captured"
    /\ recording_samples' = IF success THEN AUDIO_SAMPLES_3S ELSE recording_samples
    /\ recording_complete' = IF success THEN TRUE ELSE recording_complete
    /\ pc' = "stream_entry"
    /\ sample_count' = AUDIO_SAMPLES_3S
    /\ confidence' = detected_confidence
    /\ UNCHANGED << histVars, wsVars, cmdVars, readHist, warm_i, audioVars, cycleVars, blink_k, led,
                    recording_buffer, success, samples_sent, chunk_idx, wire, sent,
                    stream_exit >>

\* if (success) { recording_samples = AUDIO_SAMPLES_3S; recording_complete = true }
\* vTaskDelay(100); if (recording_complete && recording_samples > 0) the call
\* send_audio_stream(recording_buffer, recording_samples, detected_confidence)
AfterCapture ==
    /\ pc = "captured"
    /\ recording_samples' = IF success THEN AUDIO_SAMPLES_3S ELSE recording_samples
    /\ recording_complete' = IF success THEN TRUE ELSE recording_complete
    /\ IF recording_complete' /\ recording_samples' > 0
       THEN /\ pc' = "stream_entry"
            /\ sample_count' = recording_samples'
            /\ confidence' = detected_confidence
       ELSE /\ pc' = "cooldown"
            /\ UNCHANGED << sample_count, confidence >>
    /\ UNCHANGED << histVars, wsVars, cmdVars, readHist, warm_i, audioVars, cycleVars, blink_k, led,
                    recording_buffer, success, samples_sent, chunk_idx, wire, sent,
                    stream_exit >>

(* -------------------------- send_audio_stream -------------------------- *)

\* raw_chunk_size = CHUNK_SAMPLES * sizeof(int16_t)
raw_chunk_size == CHUNK_SAMPLES * 2

\* mbedtls_base64_encode(NULL, 0, &b64_max_len, NULL, raw_chunk_size)
b64_max_len == B64Len(raw_chunk_size) + 1

\* faulty variant: the chunk size taken in bytes, to_send counts half as many samples
ToSend_AsBytes(count, done) == Min(count - done, CHUNK_SAMPLES \div 2)

\* to_send = min(sample_count - samples_sent, CHUNK_SAMPLES)
ToSend(count, done) == Min(count - done, CHUNK_SAMPLES)

\* faulty variant: is_last = (samples_sent + to_send > sample_count)
IsLast_Strict(count, done, to_send) == done + to_send > count

\* is_last = (samples_sent + to_send >= sample_count)
IsLast(count, done, to_send) == done + to_send >= count

\* faulty variant: the chunk encoded from audio_data instead of audio_data + samples_sent
NextChunk_NoOffset ==
    LET to_send == Min(sample_count - samples_sent, CHUNK_SAMPLES)
        b64 == MbedtlsBase64Encode(b64_max_len, RawBytes(recording_buffer, 0, to_send))
    IN  ChunkMsg(chunk_idx, samples_sent + to_send >= sample_count, b64)

\* faulty variant: chunk_index printed from samples_sent instead of chunk_idx
NextChunk_IndexBySample ==
    LET to_send == Min(sample_count - samples_sent, CHUNK_SAMPLES)
        b64 == MbedtlsBase64Encode(b64_max_len,
                                   RawBytes(recording_buffer, samples_sent, to_send))
    IN  ChunkMsg(samples_sent, samples_sent + to_send >= sample_count, b64)

\* the chunk built by one pass of the loop body
NextChunk ==
    LET to_send == ToSend(sample_count, samples_sent)
        b64 == MbedtlsBase64Encode(b64_max_len,
                                   RawBytes(recording_buffer, samples_sent, to_send))
    IN  ChunkMsg(chunk_idx, IsLast(sample_count, samples_sent, to_send), b64)

\* faulty variant: the entry test looks at the client handle only
StreamEntry_ClientOnly ==
    /\ pc = "stream_entry"
    /\ IF ~ws_client
       THEN /\ sent' = FALSE
            /\ stream_exit' = "not_ready"
            /\ pc' = "stream_return"
       ELSE /\ pc' = "stream_start"
            /\ UNCHANGED << sent, stream_exit >>
    /\ UNCHANGED << histVars, wsVars, cmdVars, readHist, warm_i, audioVars, cycleVars, blink_k, led, recVars,
                    sample_count, confidence, samples_sent, chunk_idx, wire >>

\* if (!ws_client || !ws_connected) return false
StreamEntry ==
    /\ pc = "stream_entry"
    /\ IF ~ws_client \/ ~ws_connected
       THEN /\ sent' = FALSE
            /\ stream_exit' = "not_ready"
            /\ pc' = "stream_return"
       ELSE /\ pc' = "stream_start"
            /\ UNCHANGED << sent, stream_exit >>
    /\ UNCHANGED << histVars, wsVars, cmdVars, readHist, warm_i, audioVars, cycleVars, blink_k, led, recVars,
                    sample_count, confidence, samples_sent, chunk_idx, wire >>

\* faulty variant: the result of sending start_json is not tested
StreamStart_IgnoreResult ==
    /\ pc = "stream_start"
    /\ \E accepted \in BOOLEAN :
        /\ wire' = IF accepted THEN Append(wire, StartMsg(sample_count, confidence))
                   ELSE wire
        /\ pc' = "stream_alloc"
        /\ UNCHANGED << sent, stream_exit >>
    /\ UNCHANGED << histVars, wsVars, cmdVars, readHist, warm_i, audioVars, cycleVars, blink_k, led,
                    recVars, sample_count, confidence, samples_sent, chunk_idx >>

\* esp_websocket_client_send_text(start_json): accepted, or < 0 and return false
StreamStart ==
    /\ pc = "stream_start"
    /\ \E accepted \in BOOLEAN :
        IF accepted
        THEN /\ wire' = Append(wire, StartMsg(sample_count, confidence))
             /\ pc' = "stream_alloc"
             /\ UNCHANGED << sent, stream_exit >>
        ELSE /\ sent' = FALSE
             /\ stream_exit' = "start_rejected"
             /\ pc' = "stream_return"
             /\ UNCHANGED wire
    /\ UNCHANGED << histVars, wsVars, cmdVars, readHist, warm_i, audioVars, cycleVars, blink_k, led, recVars,
                    sample_count, confidence, samples_sent, chunk_idx >>

\* samples_sent = 0, chunk_idx = 0, the two malloc calls; a failed allocation
\* returns false, otherwise the first test of the while loop
StreamAlloc ==
    /\ pc = "stream_alloc"
    /\ samples_sent' = 0
    /\ chunk_idx' = 0
    /\ \E allocated \in BOOLEAN :
        IF ~allocated
        THEN /\ sent' = FALSE
             /\ stream_exit' = "no_memory"
             /\ pc' = "stream_return"
        ELSE IF 0 < sample_count
        THEN /\ pc' = "stream_chunk"
             /\ UNCHANGED << sent, stream_exit >>
        ELSE /\ sent' = (0 >= sample_count)
             /\ stream_exit' = "loop_end"
             /\ pc' = "stream_return"
    /\ UNCHANGED << histVars, wsVars, cmdVars, readHist, warm_i, audioVars, cycleVars, blink_k, led, recVars,
                    sample_count, confidence, wire >>

\* faulty variant: the ready flag is tested again before every chunk
StreamChunk_CheckFlag ==
    /\ pc = "stream_chunk"
    /\ IF ~ws_connected
       THEN /\ sent' = FALSE
            /\ stream_exit' = "not_ready"
            /\ pc' = "stream_return"
            /\ UNCHANGED << wire, samples_sent, chunk_idx >>
       ELSE \E accepted \in BOOLEAN :
            IF accepted
            THEN /\ wire' = Append(wire, NextChunk)
                 /\ samples_sent' = samples_sent + ToSend(sample_count, samples_sent)
                 /\ chunk_idx' = chunk_idx + 1
                 /\ IF samples_sent' < sample_count
                    THEN UNCHANGED << pc, sent, stream_exit >>
                    ELSE /\ sent' = (samples_sent' >= sample_count)
                         /\ stream_exit' = "loop_end"
                         /\ pc' = "stream_return"
            ELSE /\ sent' = (samples_sent >= sample_count)
                 /\ stream_exit' = "chunk_rejected"
                 /\ pc' = "stream_return"
                 /\ UNCHANGED << wire, samples_sent, chunk_idx >>
    /\ UNCHANGED << histVars, wsVars, cmdVars, readHist, warm_i, audioVars, cycleVars, blink_k, led, recVars,
                    sample_count, confidence >>

\* faulty variant: a rejected chunk is skipped and the loop goes on with the next one
StreamChunk_SkipRejected ==
    /\ pc = "stream_chunk"
    /\ \E accepted \in BOOLEAN :
        /\ wire' = IF accepted THEN Append(wire, NextChunk) ELSE wire
        /\ samples_sent' = samples_sent + ToSend(sample_count, samples_sent)
        /\ chunk_idx' = chunk_idx + 1
        /\ IF samples_sent' < sample_count
           THEN /\ stream_exit' = IF accepted THEN stream_exit ELSE "chunk_rejected"
                /\ UNCHANGED << pc, sent >>
           ELSE /\ sent' = (samples_sent' >= sample_count)
                /\ stream_exit' = IF accepted /\ stream_exit = "none" THEN "loop_end"
                                  ELSE "chunk_rejected"
                /\ pc' = "stream_return"
    /\ UNCHANGED << histVars, wsVars, cmdVars, readHist, warm_i, audioVars, cycleVars, blink_k, led, recVars,
                    sample_count, confidence >>

\* one pass of while (samples_sent < sample_count): encode, send; a rejected
\* send breaks; after the loop return (samples_sent >= sample_count)
StreamChunk ==
    /\ pc = "stream_chunk"
    /\ \E accepted \in BOOLEAN :
        IF accepted
        THEN /\ wire' = Append(wire, NextChunk)
             /\ samples_sent' = samples_sent + ToSend(sample_count, samples_sent)
             /\ chunk_idx' = chunk_idx + 1
             /\ IF samples_sent' < sample_count
                THEN UNCHANGED << pc, sent, stream_exit >>
                ELSE /\ sent' = (samples_sent' >= sample_count)
                     /\ stream_exit' = "loop_end"
                     /\ pc' = "stream_return"
        ELSE /\ sent' = (samples_sent >= sample_count)
             /\ stream_exit' = "chunk_rejected"
             /\ pc' = "stream_return"
             /\ UNCHANGED << wire, samples_sent, chunk_idx >>
    /\ UNCHANGED << histVars, wsVars, cmdVars, readHist, warm_i, audioVars, cycleVars, blink_k, led, recVars,
                    sample_count, confidence >>

\* back in the task: "Sent successfully!" or "Send failed!"
StreamReturn ==
    /\ pc = "stream_return"
    /\ pc' = "cooldown"
    /\ UNCHANGED << histVars, wsVars, cmdVars, readHist, warm_i, audioVars, cycleVars, blink_k, led, recVars,
                    streamVars >>

\* vTaskDelay(500) and the next cycle
Cooldown ==
    /\ pc = "cooldown"
    /\ LoopTop
    /\ UNCHANGED loopKept

(* ----------------------- websocket event handler ----------------------- *)

\* case WEBSOCKET_EVENT_CONNECTED: ws_connected = true
WsConnected ==
    /\ ws_client
    /\ ~ws_connected
    /\ ws_connected' = TRUE
    /\ UNCHANGED << pc, ws_client, warm_i, audioVars, cycleVars, blink_k, led,
                    recVars, streamVars, histVars, cmdVars, readHist >>

\* case WEBSOCKET_EVENT_DISCONNECTED: ws_connected = false
WsDisconnected ==
    /\ ws_client
    /\ ws_connected
    /\ ws_connected' = FALSE
    /\ UNCHANGED << pc, ws_client, warm_i, audioVars, cycleVars, blink_k, led,
                    recVars, streamVars, histVars, cmdVars, readHist >>

(* ------------------------ handle_server_action ------------------------- *)

\* cJSON_GetObjectItem found no such member (it returns NULL)
Absent == "<absent>"

\* a member that is not a JSON string: its valuestring is NULL
NotString == "<number>"

\* a member that is a JSON object
Object == "<object>"

\* the pins the handler drives besides LED_PIN
RelayPins == { PIN_LIGHT, PIN_FAN }

\* the parsed form of one inbound text: root.type, root.payload and the
\* members of payload
Msg(t, p, a, tg, v, au) ==
    [ type |-> t, payload |-> p, action |-> a, target |-> tg, value |-> v, audio |-> au ]

\* the commands of the wire protocol, and one of a type the device does not know
WellFormed ==
    { Msg("action", Object, "set", tg, v, Absent) :
        tg \in { "light", "fan", "led", "door" }, v \in { "on", "off" } }
    \cup { Msg("play", Object, Absent, Absent, Absent, "meow.wav"),
           Msg("status", Object, "set", "led", "on", Absent) }

\* the commands with one member missing or not a string
OneFault ==
    LET a == Msg("action", Object, "set", "led", "on", Absent)
        d == Msg("action", Object, "set", "door", "on", Absent)
        pl == Msg("play", Object, Absent, Absent, Absent, "meow.wav")
    IN  { [ a EXCEPT ![f] = x ] :
            f \in { "type", "payload", "action", "target", "value" },
            x \in { Absent, NotString } }
        \cup { [ d EXCEPT !.value = x ] : x \in { Absent, NotString } }
        \cup { [ pl EXCEPT ![f] = x ] :
                 f \in { "payload", "audio" }, x \in { Absent, NotString } }

\* the parseable texts the server may send
InboundMessages == WellFormed \cup OneFault

\* cJSON_GetObjectItem(payload, name): NULL unless payload is an object that
\* has the member
Item(m, name) == IF m.payload = Object THEN m[name] ELSE Absent

\* what one run of the handler does: an invalid load (crash), or a return
\* after gpio_set_level(gpio_num, level) when gpio_num # NO_PIN
Crash == [ crash |-> TRUE, gpio_num |-> NO_PIN, level |-> 0 ]

Return(gpio_num, level) == [ crash |-> FALSE, gpio_num |-> gpio_num, level |-> level ]

\* ESP_LOGI with "%s" of the strings: formatting a NULL string is undefined,
\* it may print "(null)" or fault
LogStrings(strs, rest) ==
    IF NotString \in strs THEN { Crash } \cup rest ELSE rest

\* the pin a target names
GpioNum(target) ==
    IF target = "light" THEN PIN_LIGHT
    ELSE IF target = "fan" THEN PIN_FAN
    ELSE IF target = "led" THEN LED_PIN
    ELSE NO_PIN

\* the "action" branch once payload is there
ActionBranch(m) ==
    LET action == Item(m, "action")
        target == Item(m, "target")
        value == Item(m, "value")
    IN  IF Absent \in { action, target, value } THEN { Crash }
        ELSE LogStrings({ action, target, value },
                IF target = NotString THEN { Crash }
                ELSE IF GpioNum(target) = NO_PIN THEN { Return(NO_PIN, 0) }
                ELSE IF value = NotString THEN { Crash }
                ELSE { Return(GpioNum(target), IF value = "on" THEN 1 ELSE 0) })

\* the "play" branch once payload is there
PlayBranch(m) ==
    LET audio == Item(m, "audio")
    IN  IF audio = Absent THEN { Crash }
        ELSE LogStrings({ audio }, { Return(NO_PIN, 0) })

\* the outcomes of handle_server_action on the parsed text m
handle_server_action(m) ==
    IF m.type = Absent THEN { Return(NO_PIN, 0) }
    ELSE IF m.type = NotString THEN { Crash }
    ELSE IF m.type = "action" THEN
        IF m.payload = Absent THEN { Return(NO_PIN, 0) } ELSE ActionBranch(m)
    ELSE IF m.type = "play" THEN
        IF m.payload = Absent THEN { Return(NO_PIN, 0) } ELSE PlayBranch(m)
    ELSE { Return(NO_PIN, 0) }

\* case WEBSOCKET_EVENT_DATA with the text m: the copy, handle_server_action
\* and its effect on the pins, free
HandleMessage(m) ==
    /\ ws_client
    /\ ws_connected
    /\ ~panic
    /\ \E o \in handle_server_action(m) :
        /\ panic' = o.crash
        /\ led' = IF ~o.crash /\ o.gpio_num = LED_PIN THEN o.level ELSE led
        /\ gpio_level' = IF ~o.crash /\ o.gpio_num \in RelayPins
                         THEN [ gpio_level EXCEPT ![o.gpio_num] = o.level ]
                         ELSE gpio_level
    /\ UNCHANGED << pc, wsVars, warm_i, audioVars, cycleVars, blink_k, recVars,
                    streamVars, histVars, readHist >>

WsData == \E m \in InboundMessages : HandleMessage(m)

(* --------------------------- specifications ---------------------------- *)

\* app_main up to xTaskCreate(inference_task): statics zeroed, LED low, the
\* websocket client created (or not), the task at its first warm-up read
Init ==
    /\ pc = "warmup"
    /\ ws_client \in BOOLEAN
    /\ ws_connected = FALSE
    /\ warm_i = 0
    /\ ei_slice_buffer = [ j \in 1 .. EI_CLASSIFIER_SLICE_SIZE |-> 0 ]
    /\ samples_read = 0
    /\ sum_sq = 0
    /\ current_rms = 0
    /\ bus_log = << >>
    /\ result = [ i \in 1 .. EI_CLASSIFIER_LABEL_COUNT |-> 0 ]
    /\ cls_out = NoConf
    /\ detected_confidence = 0
    /\ wake_word_detected = FALSE
    /\ blink_k = 0
    /\ led = 0
    /\ recording_buffer = [ j \in 1 .. AUDIO_SAMPLES_3S |-> 0 ]
    /\ recording_samples = 0
    /\ recording_complete = FALSE
    /\ success = FALSE
    /\ sample_count = 0
    /\ confidence = 0
    /\ samples_sent = 0
    /\ chunk_idx = 0
    /\ wire = << >>
    /\ sent = FALSE
    /\ stream_exit = "none"
    /\ last_res = "none"
    /\ gpio_level = [ p \in RelayPins |-> 0 ]
    /\ panic = FALSE
    /\ xfer_parity = 0

Next ==
    \/ WarmupRead
    \/ ListenRead
    \/ RetryDelay
    \/ Classify
    \/ Gate
    \/ AlertOn
    \/ AlertOff
    \/ CaptureRead
    \/ AfterCapture
    \/ StreamEntry
    \/ StreamStart
    \/ StreamAlloc
    \/ StreamChunk
    \/ StreamReturn
    \/ Cooldown
    \/ WsConnected
    \/ WsDisconnected

Spec == Init /\ [][Next]_vars

\* the program with a server that sends commands: the event task also
\* delivers WEBSOCKET_EVENT_DATA; nothing runs after an invalid load
NextCmd ==
    \/ ~panic /\ Next
    \/ WsData

SpecCmd == Init /\ [][NextCmd]_vars

\* the steps of inference_task
TaskNext ==
    \/ WarmupRead
    \/ ListenRead
    \/ RetryDelay
    \/ Classify
    \/ Gate
    \/ AlertOn
    \/ AlertOff
    \/ CaptureRead
    \/ AfterCapture
    \/ StreamEntry
    \/ StreamStart
    \/ StreamAlloc
    \/ StreamChunk
    \/ StreamReturn
    \/ Cooldown

\* the scheduler keeps running the task (priority 5, every delay finite) and
\* each blocking call it makes returns: a bus read within its 1000 ms
\* timeout (delivering frames or failing), a send when the transport accepts
\* or rejects the text
SpecCmdLive == SpecCmd /\ WF_vars(~panic /\ TaskNext)

\* int16 values a caller may pass to send_audio_stream
StreamSamples == { INT16_MIN, 0 - 1, 258 }

\* a call send_audio_stream(recording_buffer, sample_count, confidence) on any
\* buffer contents, any sample_count in 1 .. AUDIO_SAMPLES_3S, either flag value
InitStream ==
    /\ pc = "stream_entry"
    /\ ws_client \in BOOLEAN
    /\ ws_connected \in BOOLEAN
    /\ ws_client \/ ~ws_connected
    /\ warm_i = WARMUP_READS
    /\ ei_slice_buffer = [ j \in 1 .. EI_CLASSIFIER_SLICE_SIZE |-> 0 ]
    /\ samples_read = 0
    /\ sum_sq = 0
    /\ current_rms = 0
    /\ bus_log = << >>
    /\ result = [ i \in 1 .. EI_CLASSIFIER_LABEL_COUNT |-> 0 ]
    /\ cls_out = NoConf
    /\ detected_confidence = 0
    /\ wake_word_detected = FALSE
    /\ blink_k = 0
    /\ led = 0
    /\ recording_buffer \in [ 1 .. AUDIO_SAMPLES_3S -> StreamSamples ]
    /\ sample_count \in 1 .. AUDIO_SAMPLES_3S
    /\ recording_samples = sample_count
    /\ recording_complete = TRUE
    /\ success = TRUE
    /\ confidence \in { EI_CLASSIFIER_THRESHOLD }
    /\ samples_sent = 0
    /\ chunk_idx = 0
    /\ wire = << >>
    /\ sent = FALSE
    /\ stream_exit = "none"
    /\ last_res = "none"
    /\ gpio_level = [ p \in RelayPins |-> 0 ]
    /\ panic = FALSE
    /\ xfer_parity = 0

NextStream ==
    \/ StreamEntry
    \/ StreamStart
    \/ StreamAlloc
    \/ StreamChunk
    \/ WsConnected
    \/ WsDisconnected

SpecStream == InitStream /\ [][NextStream]_vars

(* ---------------------- the two readers on their own ------------------- *)

\* longest span requested from a reader run on its own
MaxSpan == 3

\* left-channel bus words of the reader runs: scaled 0 (low bits only), -1,
\* 6693, -6693, and words beyond the 16-bit range on either side
ReadWords == { 5, 0 - 1, (6693 * 2048) + 5, 1029 - (6693 * 2048),
               (40000 * 2048) + 1, 0 - (40000 * 2048) }

\* the calls read_audio_slice(ei_slice_buffer, n, &current_rms) and
\* read_audio_to_buffer(recording_buffer, n) for any n in 1 .. MaxSpan, about
\* to be given the same bus transfers; sum_sq and current_rms are floats
ReadInit ==
    /\ pc = "read_call"
    /\ ws_client = FALSE
    /\ ws_connected = FALSE
    /\ warm_i = WARMUP_READS
    /\ \E n \in 1 .. MaxSpan :
        /\ ei_slice_buffer = [ j \in 1 .. n |-> 0 ]
        /\ recording_buffer = [ j \in 1 .. n |-> 0 ]
    /\ samples_read = 0
    /\ sum_sq = FZero
    /\ current_rms = FZero
    /\ bus_log = << >>
    /\ result = [ i \in 1 .. EI_CLASSIFIER_LABEL_COUNT |-> 0 ]
    /\ cls_out = NoConf
    /\ detected_confidence = 0
    /\ wake_word_detected = FALSE
    /\ blink_k = 0
    /\ led = 0
    /\ recording_samples = 0
    /\ recording_complete = FALSE
    /\ success = FALSE
    /\ sample_count = 0
    /\ confidence = 0
    /\ samples_sent = 0
    /\ chunk_idx = 0
    /\ wire = << >>
    /\ sent = FALSE
    /\ stream_exit = "none"
    /\ last_res = "none"
    /\ gpio_level = [ p \in RelayPins |-> 0 ]
    /\ panic = FALSE
    /\ xfer_parity = 0

\* one pass of the while loop of both readers on one and the same bus
\* transfer: read_audio_slice returns at pc "read_ok" / "read_failed",
\* read_audio_to_buffer returns `success`; the two loops keep the same
\* samples_read (samples_read += got_frames in both)
ReadStep ==
    /\ pc = "read_call"
    /\ \E t \in TransfersOf(FramesToRead(Len(ei_slice_buffer), samples_read), ReadWords) :
        IF t.ret # "ESP_OK"
        THEN /\ pc' = "read_failed"
             /\ success' = FALSE
             /\ UNCHANGED << audioVars, recording_buffer >>
        ELSE /\ ei_slice_buffer' = SliceStore(ei_slice_buffer, samples_read, t)
             /\ recording_buffer' = RecordStore(recording_buffer, samples_read, t)
             /\ samples_read' = samples_read + GotFrames(t)
             /\ sum_sq' = SumSqAfterF(sum_sq, t, 0)
             /\ bus_log' = bus_log \o GotLeft(t)
             /\ IF samples_read + GotFrames(t) < Len(ei_slice_buffer)
                THEN UNCHANGED << pc, current_rms >>
                ELSE /\ current_rms' = RmsF(SumSqAfterF(sum_sq, t, 0), Len(ei_slice_buffer))
                     /\ pc' = "read_ok"
             /\ IF samples_read + GotFrames(t) < Len(recording_buffer)
                THEN UNCHANGED success
                ELSE success' = TRUE
    /\ xfer_parity' = 1 - xfer_parity
    /\ UNCHANGED << histVars, wsVars, cmdVars, warm_i, cycleVars, blink_k, led,
                    recording_samples, recording_complete, streamVars >>

SpecRead == ReadInit /\ [][ReadStep]_vars

\* the readers run as long as the bus answers: each transfer returns within
\* its 1000 ms timeout
SpecReadLive == SpecRead /\ WF_vars(ReadStep)

(* ------------------------- the peer's view ----------------------------- *)

IsChunk(m) == m.type = "audio_chunk"

IsStart(m) == m.type = "audio_start"

\* the audio_chunk messages on the wire, in the order sent
Chunks == SelectSeq(wire, IsChunk)

\* the samples one chunk carries
Payload(m) == BytesToSamples(B64Decode(m.data_base64))

\* the payloads of the chunks ch[j] with chunk_index = i, in the order sent
RECURSIVE PayloadsAt(_, _, _)
PayloadsAt(ch, i, j) ==
    IF j > Len(ch) THEN << >>
    ELSE (IF ch[j].chunk_index = i THEN Payload(ch[j]) ELSE << >>)
         \o PayloadsAt(ch, i, j + 1)

\* the largest chunk_index among ch (-1 for none)
RECURSIVE MaxIndex(_, _)
MaxIndex(ch, j) ==
    IF j > Len(ch) THEN 0 - 1
    ELSE LET m == MaxIndex(ch, j + 1)
         IN  IF ch[j].chunk_index > m THEN ch[j].chunk_index ELSE m

\* the decoded payloads concatenated in chunk_index order, from index i on
RECURSIVE Reassemble(_, _)
Reassemble(ch, i) ==
    IF i > MaxIndex(ch, 1) THEN << >>
    ELSE PayloadsAt(ch, i, 1) \o Reassemble(ch, i + 1)

\* the samples handed to send_audio_stream
InputSamples == SubSeq(recording_buffer, 1, sample_count)

\* how many messages of w satisfy the test
RECURSIVE CountStarts(_, _)
CountStarts(w, j) ==
    IF j > Len(w) THEN 0
    ELSE (IF IsStart(w[j]) THEN 1 ELSE 0) + CountStarts(w, j + 1)

RECURSIVE CountLast(_, _)
CountLast(w, j) ==
    IF j > Len(w) THEN 0
    ELSE (IF w[j].is_last THEN 1 ELSE 0) + CountLast(w, j + 1)

\* ceil(total / chunk)
CeilDiv(total, chunk) == (total + chunk - 1) \div chunk

(* ------------------------------- claims -------------------------------- *)

\* C1: when send_audio_stream reports success, the payloads of the
\* audio_chunk messages it sent, each decoded and concatenated in
\* chunk_index order, are exactly the input samples (no gap, duplicate or
\* reordering).  Checked for every buffer content and every sample_count
\* in 1 .. AUDIO_SAMPLES_3S (SpecStream).
C1_StreamRoundTrip ==
    (pc = "stream_return" /\ sent) => Reassemble(Chunks, 0) = InputSamples

C1_Witness ==
    /\ pc = "stream_return"
    /\ sent
    /\ sample_count = AUDIO_SAMPLES_3S
    /\ Len(Chunks) >= 2
    /\ recording_buffer[1] = 258
    /\ recording_buffer[2] = INT16_MIN
    /\ recording_buffer[AUDIO_SAMPLES_3S] = 0 - 1

\* C2 as stated: every call of send_audio_stream sends exactly one
\* audio_start, and sends it before any audio_chunk.
C2_Original ==
    pc = "stream_return" =>
        /\ CountStarts(wire, 1) = 1
        /\ IsStart(wire[1])

\* C2 amended: a call sends at most one audio_start and it is the first
\* message of the call; a call that goes on to the chunks has sent exactly
\* one; every audio_chunk is preceded by it, so no audio_chunk is sent when
\* the audio_start was not sent (flag clear at entry, or send rejected).
C2_StartFirst ==
    /\ \A i \in 1 .. Len(wire) : IsStart(wire[i]) <=> (i = 1)
    /\ pc \in { "stream_alloc", "stream_chunk" } => CountStarts(wire, 1) = 1
    /\ pc \in { "stream_entry", "stream_start" } => wire = << >>
    /\ (pc = "stream_return" /\ stream_exit \in { "not_ready", "start_rejected" })
          => wire = << >>

C2_Witness ==
    /\ pc = "stream_return"
    /\ Len(wire) >= 3
    /\ IsStart(wire[1])
    /\ wire[1].total_samples = AUDIO_SAMPLES_3S
    /\ wire[1].confidence = detected_confidence

\* C3: in every stream, completed or aborted, the chunk_index values of the
\* audio_chunk messages in the order sent are 0, 1, ..., k-1.
C3_ContiguousIndex ==
    \A i \in 1 .. Len(Chunks) : Chunks[i].chunk_index = i - 1

\* an aborted stream that got two chunks out
C3_Witness ==
    /\ pc = "stream_return"
    /\ stream_exit = "chunk_rejected"
    /\ Len(Chunks) = 2

\* C4 as stated: every stream (here: every call that sent at least one
\* chunk) has exactly one chunk with is_last = true, the last message sent.
C4_Original ==
    (pc = "stream_return" /\ Len(Chunks) > 0) =>
        /\ CountLast(wire, 1) = 1
        /\ wire[Len(wire)].is_last

\* C4 amended: a stream has at most one chunk with is_last = true; when
\* there is one it is the last message sent and has the highest
\* chunk_index; a stream that reports success has exactly one, and a
\* stream aborted by a failure has none.
C4_LastChunk ==
    /\ \A i \in 1 .. Len(wire) :
          wire[i].is_last =>
              /\ i = Len(wire)
              /\ IsChunk(wire[i])
              /\ wire[i].chunk_index = MaxIndex(Chunks, 1)
    /\ (pc = "stream_return" /\ sent) => CountLast(wire, 1) = 1
    /\ (pc = "stream_return" /\ ~sent) => CountLast(wire, 1) = 0

C4_Witness ==
    /\ pc = "stream_return"
    /\ sent
    /\ Len(Chunks) >= 2
    /\ wire[Len(wire)].is_last
    /\ ~wire[Len(wire) - 1].is_last

\* the complete stream of a recording: audio_start, then ceil(n / chunk)
\* chunks, all but the last of CHUNK_SAMPLES samples, the last is_last
CompleteStream ==
    /\ Len(wire) = 1 + CeilDiv(sample_count, CHUNK_SAMPLES)
    /\ IsStart(wire[1])
    /\ wire[1].total_samples = sample_count
    /\ \A i \in 2 .. Len(wire) :
          /\ IsChunk(wire[i])
          /\ i < Len(wire) => Len(Payload(wire[i])) = CHUNK_SAMPLES
    /\ wire[Len(wire)].is_last

\* C5 as stated: after a wake event whose capture succeeds and whose sends
\* all succeed (here: the audio_start was sent and no send was rejected),
\* the wire holds the complete stream.
C5_Original ==
    ( /\ pc = "stream_return"
      /\ wake_word_detected
      /\ recording_complete
      /\ Len(wire) >= 1
      /\ stream_exit \notin { "start_rejected", "chunk_rejected" } )
    => CompleteStream

\* C5 amended: after a wake event whose capture succeeds, with the ready
\* flag set at the call's entry, the two streaming buffers allocated and
\* every send accepted, send_audio_stream reports success and the wire
\* holds 1 audio_start + ceil(total_samples / CHUNK_SAMPLES) audio_chunk
\* messages, all but the last of CHUNK_SAMPLES samples, the last is_last.
C5_CompleteStream ==
    ( /\ pc = "stream_return"
      /\ wake_word_detected
      /\ recording_complete
      /\ stream_exit \notin { "not_ready", "start_rejected", "no_memory",
                              "chunk_rejected" } )
    => /\ sent
       /\ sample_count = AUDIO_SAMPLES_3S
       /\ CompleteStream

C5_Witness ==
    /\ pc = "stream_return"
    /\ wake_word_detected
    /\ recording_complete
    /\ stream_exit = "loop_end"
    /\ sent
    /\ Len(Chunks) = CeilDiv(AUDIO_SAMPLES_3S, CHUNK_SAMPLES)

\* index of the target label in the classifier's label set
TargetIndex ==
    CHOOSE i \in 1 .. EI_CLASSIFIER_LABEL_COUNT :
        ei_classifier_inferencing_categories[i] = "heymiaomiao"

\* sum of squares over the scaled left words w[j .. ], accumulated as the reader does
RECURSIVE LogSumSq(_, _, _)
LogSumSq(w, j, sum) ==
    IF j > Len(w) THEN sum
    ELSE LET s == ScaleSample(w[j])
         IN  LogSumSq(w, j + 1, F32(sum + F32(s * s)))

\* the RMS of the words this cycle's acquisition delivered
LogRms == Rms(LogSumSq(bus_log, 1, 0), EI_CLASSIFIER_SLICE_SIZE)

\* positions of the task between a wake event and the next cycle
TriggeredStates ==
    { "alert_on", "alert_off", "capture", "captured", "stream_entry",
      "stream_start", "stream_alloc", "stream_chunk", "stream_return", "cooldown" }

StreamStates ==
    { "stream_entry", "stream_start", "stream_alloc", "stream_chunk", "stream_return" }

C7_NoCaptureWithoutWake ==
    (pc \in TriggeredStates \/ wire # << >>) =>
        /\ wake_word_detected
        /\ cls_out >= EI_CLASSIFIER_THRESHOLD
        /\ detected_confidence = cls_out
        /\ current_rms > VAD_THRESHOLD * RmsUnit
        /\ last_res = "EI_IMPULSE_OK"

\* a cycle with a confidence above the threshold and an RMS below VAD_THRESHOLD
C7_Witness ==
    /\ pc = "gate"
    /\ cls_out > EI_CLASSIFIER_THRESHOLD
    /\ current_rms < VAD_THRESHOLD * RmsUnit
    /\ recording_complete

\* C8: a cycle whose classifier call fails evaluates no gate and triggers
\* nothing (the task is acquiring the next slice until the next classifier
\* call); every gate evaluation, and every audio_start payload, uses the
\* confidence the classifier returned in the same cycle.
C8_ClassifierFailure ==
    /\ last_res = "EI_IMPULSE_ERROR" =>
          /\ pc \in { "listening", "retry_delay", "classify" }
          /\ cls_out = NoConf
          /\ ~wake_word_detected
          /\ wire = << >>
    /\ pc = "gate" =>
          /\ last_res = "EI_IMPULSE_OK"
          /\ cls_out # NoConf
          /\ result[TargetIndex] = cls_out
    /\ pc \in TriggeredStates => (cls_out # NoConf /\ detected_confidence = cls_out)
    /\ wire # << >> => wire[1].confidence = cls_out

\* after a failed call, with an old above-threshold score still in result,
\* the task is acquiring the next slice
C8_Witness ==
    /\ last_res = "EI_IMPULSE_ERROR"
    /\ pc = "listening"
    /\ samples_read > 0
    /\ result[TargetIndex] > EI_CLASSIFIER_THRESHOLD

\* the slice / recording a bus log should have produced
ScaledLog == [ j \in 1 .. Len(bus_log) |-> ScaleSample(bus_log[j]) ]

\* C9: a failed bus transfer during a LISTENING acquisition makes
\* read_audio_slice return false with current_rms unwritten (still 0.0);
\* the task then waits and starts the acquisition again, without calling
\* the classifier or evaluating the gate; the classifier and the gate only
\* ever see a slice buffer completely filled by the cycle's own acquisition.
C9_ReadFailure ==
    /\ [] ( /\ pc \in { "listening", "retry_delay" } =>
                (current_rms = 0 /\ cls_out = NoConf /\ ~wake_word_detected)
            /\ pc \in { "classify", "gate" } =>
                ( /\ samples_read = EI_CLASSIFIER_SLICE_SIZE
                  /\ Len(bus_log) = EI_CLASSIFIER_SLICE_SIZE
                  /\ ei_slice_buffer = ScaledLog
                  /\ current_rms = LogRms ) )
    /\ [][ /\ (pc = "listening" /\ pc' # pc) => pc' \in { "retry_delay", "classify" }
           /\ (pc = "listening" /\ pc' = "retry_delay") =>
                 UNCHANGED << ei_slice_buffer, current_rms, result, led, wire >>
           /\ (pc = "retry_delay" /\ pc' # pc) =>
                 ( /\ pc' = "listening"
                   /\ samples_read' = 0
                   /\ bus_log' = << >>
                   /\ UNCHANGED << result, led, recVars >> )
       ]_vars

\* a failure in the middle of an acquisition: part of the slice overwritten
C9_Witness ==
    /\ pc = "retry_delay"
    /\ samples_read > 0
    /\ samples_read < EI_CLASSIFIER_SLICE_SIZE
    /\ last_res = "EI_IMPULSE_OK"

\* C10: a failed capture leaves recording_complete = false and
\* recording_samples = 0, send_audio_stream is not called and nothing is
\* sent for that trigger, and the task goes back to listening; whenever
\* send_audio_stream runs, the recording buffer is completely filled by
\* the capture of the same trigger.
C10_CaptureFailure ==
    /\ [] ( /\ pc \in { "capture", "captured" } =>
                (~recording_complete /\ recording_samples = 0 /\ wire = << >>)
            /\ (pc = "cooldown" /\ ~success) =>
                ( /\ ~recording_complete
                  /\ recording_samples = 0
                  /\ wire = << >>
                  /\ stream_exit = "none" )
            /\ pc \in StreamStates =>
                ( /\ success
                  /\ recording_complete
                  /\ recording_samples = AUDIO_SAMPLES_3S
                  /\ sample_count = AUDIO_SAMPLES_3S
                  /\ Len(bus_log) = AUDIO_SAMPLES_3S
                  /\ recording_buffer = ScaledLog ) )
    /\ [][ /\ (pc = "captured" /\ ~success /\ pc' # pc) => pc' = "cooldown"
           /\ (pc = "captured" /\ success /\ pc' # pc) => pc' = "stream_entry"
           /\ (pc = "cooldown" /\ pc' # pc) => pc' = "listening"
       ]_vars

\* a capture that failed part-way, after an earlier trigger had completed one
C10_Witness ==
    /\ pc = "cooldown"
    /\ ~success
    /\ wake_word_detected
    /\ samples_read > 0
    /\ samples_read < AUDIO_SAMPLES_3S
    /\ recording_buffer[AUDIO_SAMPLES_3S] # 0

\* the exits of send_audio_stream taken after a rejected send
RejectedExits == { "start_rejected", "chunk_rejected" }

\* C11: send_audio_stream aborts on the first rejected send.  The rejection
\* ends the call at once with the result false; the rejected message is not
\* on the wire (an audio_start: the wire is empty; a chunk: the wire holds
\* exactly the chunks 0 .. chunk_idx-1 and none with the rejected index);
\* from the rejection to the next cycle nothing more is put on the wire (no
\* retry, no later chunk, no abort or termination message); and no chunk
\* of the aborted stream has is_last = true.
C11_AbortOnSendFailure ==
    /\ [] ( stream_exit \in RejectedExits =>
                /\ pc \in { "stream_return", "cooldown" }
                /\ ~sent
                /\ samples_sent < sample_count
                /\ CountLast(wire, 1) = 0
                /\ stream_exit = "start_rejected" => wire = << >>
                /\ stream_exit = "chunk_rejected" =>
                      /\ Len(wire) = 1 + chunk_idx
                      /\ IsStart(wire[1])
                      /\ \A i \in 2 .. Len(wire) :
                            /\ IsChunk(wire[i])
                            /\ wire[i].chunk_index < chunk_idx )
    /\ [][ /\ (stream_exit \notin RejectedExits /\ stream_exit' \in RejectedExits) =>
                 ( /\ pc \in { "stream_start", "stream_chunk" }
                   /\ pc' = "stream_return"
                   /\ wire' = wire
                   /\ ~sent' )
           /\ stream_exit \in RejectedExits =>
                 ( /\ wire' = wire \/ (pc = "cooldown" /\ pc' = "listening")
                   /\ sent' = sent \/ (pc = "cooldown" /\ pc' = "listening") )
           /\ (pc \in { "stream_start", "stream_chunk" } /\ wire' = wire /\ pc' # pc) =>
                 stream_exit' \in RejectedExits
       ]_vars

\* the third chunk of a triggered stream rejected after two were accepted,
\* and the task already past the call
C11_Witness ==
    /\ pc = "cooldown"
    /\ stream_exit = "chunk_rejected"
    /\ wake_word_detected
    /\ chunk_idx = 2
    /\ samples_sent = 2 * CHUNK_SAMPLES
    /\ ~sent

\* the commands the device acts on
KnownTypes == { "action", "play" }

\* C12 as stated: on every parseable message with a member missing or not a
\* string the handler returns normally (no invalid load), and a message of
\* an unknown type actuates nothing.
C12_Original ==
    [][ /\ \A m \in OneFault : HandleMessage(m) => ~panic'
        /\ \A m \in InboundMessages :
              (m.type \notin KnownTypes /\ HandleMessage(m)) =>
                  UNCHANGED << led, gpio_level >>
      ]_vars

\* what the inference task reads or writes, the ready flag aside
taskVars == << pc, warm_i, audioVars, cycleVars, blink_k, led, recVars, streamVars,
               histVars >>

\* a step of the websocket event handler
EventStep == WsConnected \/ WsDisconnected \/ WsData

\* C13 as stated: the ready flag is the only state both contexts access.  A
\* step of the event handler changes nothing the inference task reads or
\* writes (the LED output included) except ws_connected, and a step of the
\* inference task changes nothing the handler writes.
C13_Original ==
    [][ /\ EventStep => UNCHANGED taskVars
        /\ ~(UNCHANGED taskVars) => UNCHANGED << ws_connected, gpio_level, panic >>
      ]_vars

\* the state of the orchestration loop the task is in; the cooldown delay
\* ends the stage it follows
OrchState ==
    IF pc = "warmup" THEN "WARMUP"
    ELSE IF pc \in { "listening", "retry_delay", "classify", "gate" } THEN "LISTENING"
    ELSE IF pc \in { "alert_on", "alert_off" } THEN "ALERTING"
    ELSE IF pc \in { "capture", "captured" } THEN "CAPTURING"
    ELSE IF pc \in StreamStates THEN "STREAMING"
    ELSE IF stream_exit = "none" THEN "CAPTURING"
    ELSE "STREAMING"

\* C14: the loop only moves WARMUP -> LISTENING, LISTENING -> ALERTING (only
\* when the gate of the cycle fired), ALERTING -> CAPTURING, CAPTURING ->
\* STREAMING (only when the capture succeeded), CAPTURING -> LISTENING (only
\* when it failed) and STREAMING -> LISTENING.  WARMUP is never entered
\* again and is left after WARMUP_READS read calls, the classifier not yet
\* invoked.  Between a wake event and the return to LISTENING the classifier
\* is not invoked and no gate is evaluated: the cycle's confidence, flag and
\* classifier output stay as the trigger left them.
C14_LoopTransitions ==
    /\ [] ( /\ pc = "warmup" => (warm_i < WARMUP_READS /\ last_res = "none")
            /\ pc # "warmup" => warm_i = WARMUP_READS
            /\ OrchState \in { "ALERTING", "CAPTURING", "STREAMING" } =>
                  wake_word_detected )
    /\ [][ /\ OrchState' # OrchState =>
                 \/ OrchState = "WARMUP" /\ OrchState' = "LISTENING"
                 \/ /\ OrchState = "LISTENING" /\ OrchState' = "ALERTING"
                    /\ pc = "gate"
                    /\ GateTest(cls_out, current_rms)
                 \/ OrchState = "ALERTING" /\ OrchState' = "CAPTURING"
                      /\ blink_k' = ALERT_PULSES
                 \/ OrchState = "CAPTURING" /\ OrchState' = "STREAMING" /\ success
                 \/ OrchState = "CAPTURING" /\ OrchState' = "LISTENING" /\ ~success
                 \/ OrchState = "STREAMING" /\ OrchState' = "LISTENING"
           /\ OrchState \in { "ALERTING", "CAPTURING", "STREAMING" } =>
                 \/ UNCHANGED << cls_out, last_res, result, detected_confidence,
                                 wake_word_detected, ei_slice_buffer, current_rms >>
                 \/ OrchState' = "LISTENING"
           /\ (OrchState = "WARMUP" /\ OrchState' = "WARMUP") =>
                 (warm_i' = warm_i \/ warm_i' = warm_i + 1)
       ]_vars

\* back at the start of an acquisition after a trigger that captured and
\* streamed, the recording of that trigger still in the buffer
C14_Witness ==
    /\ pc = "listening"
    /\ samples_read = 0
    /\ recording_complete
    /\ recording_buffer[AUDIO_SAMPLES_3S] # 0
    /\ last_res = "EI_IMPULSE_OK"
    /\ warm_i = WARMUP_READS

\* C15 as stated: every wake event is eventually followed by a return to
\* LISTENING (the next slice acquisition), whatever the capture and the
\* stream return.
C15_Original ==
    (pc = "alert_on" /\ blink_k = 0) ~> (pc = "listening")

\* C16: in LISTENING the classifier is invoked exactly once on every fully
\* acquired slice and on nothing else.  The task is at the classifier call
\* only with the slice buffer completely refilled by this cycle's
\* acquisition and not yet classified; a completed acquisition always goes
\* to the call (no slice is dropped) and a failed one never does; the call
\* is left to the gate or to the next acquisition, never repeated, and the
\* buffer is not touched while it runs; the classifier's outputs change
\* nowhere else, so slices are classified in the order acquired.
C16_ClassifyEachSlice ==
    /\ [] ( pc = "classify" =>
                /\ samples_read = EI_CLASSIFIER_SLICE_SIZE
                /\ Len(bus_log) = EI_CLASSIFIER_SLICE_SIZE
                /\ ei_slice_buffer = ScaledLog
                /\ \A offset \in 0 .. EI_CLASSIFIER_SLICE_SIZE :
                   \A length \in 0 .. EI_CLASSIFIER_SLICE_SIZE - offset :
                      ei_audio_signal_get_data(offset, length)
                          = SubSeq(ScaledLog, offset + 1, offset + length)
                /\ cls_out = NoConf )
    /\ [][ /\ (pc = "listening" /\ samples_read' = EI_CLASSIFIER_SLICE_SIZE) =>
                 pc' = "classify"
           /\ pc' = "classify" =>
                 (pc \in { "listening", "classify" } /\ UNCHANGED << result, last_res >>)
           /\ (pc = "listening" /\ pc' = "retry_delay") =>
                 UNCHANGED << result, last_res, cls_out >>
           /\ (pc = "classify" /\ pc' # pc) =>
                 ( /\ pc' \in { "gate", "listening" }
                   /\ last_res' \in { "EI_IMPULSE_OK", "EI_IMPULSE_ERROR" }
                   /\ (pc' = "gate") <=> (last_res' = "EI_IMPULSE_OK")
                   /\ UNCHANGED ei_slice_buffer )
           /\ (result' # result \/ last_res' # last_res \/ cls_out' \notin { cls_out, NoConf })
                 => (pc = "classify" /\ pc' # pc)
       ]_vars

\* a slice fully acquired and waiting for its call, the call on the slice
\* before it having failed
C16_Witness ==
    /\ pc = "classify"
    /\ last_res = "EI_IMPULSE_ERROR"
    /\ ei_slice_buffer[1] # ei_slice_buffer[EI_CLASSIFIER_SLICE_SIZE]

\* the read call the task is in, if any
BusReader ==
    IF pc \in { "warmup", "listening" } THEN "read_audio_slice"
    ELSE IF pc = "capture" THEN "read_audio_to_buffer"
    ELSE "none"

\* C17: the bus has one reader at a time.  Frames are consumed only inside a
\* read call of the inference task; a capture starts only when no slice
\* acquisition is in progress and the other way round (never one call
\* directly inside or after the other without the first having returned),
\* each call starting from zero samples; while the capture runs the slice
\* buffer and the RMS accumulator are not touched, and while a slice
\* acquisition runs the recording buffer is not touched; a step of the event
\* handler consumes no frame and changes no audio state.
C17_SingleBusReader ==
    [][ /\ EventStep =>
             UNCHANGED << pc, audioVars, recording_buffer, recording_samples,
                          recording_complete >>
        /\ Len(bus_log') > Len(bus_log) =>
             ( /\ BusReader # "none"
               /\ pc \in { "warmup", "listening", "capture" }
               /\ samples_read' = Len(bus_log') )
        /\ BusReader' # BusReader => "none" \in { BusReader, BusReader' }
        /\ (BusReader = "none" /\ BusReader' # "none") =>
             (samples_read' = 0 /\ bus_log' = << >>)
        /\ BusReader = "read_audio_to_buffer" =>
             UNCHANGED << ei_slice_buffer, sum_sq, current_rms >>
        /\ BusReader = "read_audio_slice" => UNCHANGED recording_buffer
      ]_vars

\* a capture under way on a connected device, the triggering slice still in
\* the slice buffer
C17_Witness ==
    /\ pc = "capture"
    /\ ws_connected
    /\ samples_read > 1
    /\ samples_read < AUDIO_SAMPLES_3S
    /\ recording_buffer[1] = 400
    /\ ei_slice_buffer[1] = 0 - 2800

(* ------------------------- C18: RMS of a constant span ----------------- *)

Abs(x) == IF x < 0 THEN 0 - x ELSE x

\* the amplitudes of the samples the finished call collected
Amplitudes == { Abs(ScaleSample(bus_log[i])) : i \in 1 .. Len(bus_log) }

\* read_audio_slice returned true over a span of constant amplitude a
ConstantSpan(a) == pc = "read_ok" /\ Amplitudes = { a }

\* distance of two positive floats in units of the last place of the one with
\* the smaller exponent (exponents at most one apart)
UlpsApart(x, y) ==
    IF x.e = y.e THEN Abs(x.m - y.m)
    ELSE IF x.e = y.e + 1 THEN Abs(2 * x.m - y.m)
    ELSE IF y.e = x.e + 1 THEN Abs(x.m - 2 * y.m)
    ELSE Pow2(MANT_BITS)

\* n * a * a <= 2^24: every partial sum of the squares is an exact float
ExactSums(n, a) == a <= 4096 /\ n * a * a <= Pow2(MANT_BITS)

\* C18 as stated: over an all-zero span the RMS is 0.0, and over a span of
\* constant amplitude A it equals A exactly
C18_Original ==
    \A a \in 0 .. 32768 :
        ConstantSpan(a) => current_rms = FloatOf(a)

\* C18: over an all-zero span the RMS is 0.0; over a span of sample_count
\* samples of constant amplitude A it equals A exactly when
\* sample_count * A * A <= 2^24, and is within sample_count units in the last
\* place of A otherwise
C18_RmsOfConstantSpan ==
    \A a \in 0 .. 32768 :
        ConstantSpan(a) =>
            /\ a = 0 => current_rms = FZero
            /\ ExactSums(samples_read, a) => current_rms = FloatOf(a)
            /\ a > 0 => UlpsApart(current_rms, FloatOf(a)) <= samples_read

\* a span of three samples of amplitude 6693 (both signs) whose RMS is not 6693
C18_Witness ==
    /\ ConstantSpan(6693)
    /\ samples_read = 3
    /\ \E i \in 1 .. 3 : ScaleSample(bus_log[i]) < 0
    /\ current_rms # FloatOf(6693)
    /\ UlpsApart(current_rms, FloatOf(6693)) = 1

(* ------------------- C19: capture and slice acquisition ---------------- *)

\* a left word shifted right by 11 and clamped to the 16-bit signed range
Shifted(w) == w \div 2048

Clamped(w) ==
    IF Shifted(w) > 32767 THEN 32767
    ELSE IF Shifted(w) < 0 - 32768 THEN 0 - 32768
    ELSE Shifted(w)

\* C19: given the same bus transfers, read_audio_to_buffer and
\* read_audio_slice hold the same sample values, each the left word of its
\* frame shifted right by 11 and clamped to [-32768, 32767], and they return
\* the same success / failure result
C19_CaptureEqualsSlice ==
    /\ \A j \in 1 .. samples_read :
        /\ recording_buffer[j] = ei_slice_buffer[j]
        /\ recording_buffer[j] = Clamped(bus_log[j])
        /\ recording_buffer[j] \in (0 - 32768) .. 32767
    /\ success <=> pc = "read_ok"
    /\ pc = "read_ok" => samples_read = Len(recording_buffer)

\* both calls returned true over a span with a word clamped on either side
C19_Witness ==
    /\ pc = "read_ok"
    /\ success
    /\ samples_read >= 2
    /\ \E j \in 1 .. samples_read :
        Shifted(bus_log[j]) > 32767 /\ ei_slice_buffer[j] = 32767
    /\ \E j \in 1 .. samples_read :
        Shifted(bus_log[j]) < 0 - 32768 /\ recording_buffer[j] = 0 - 32768

(* ----------------------- C20: the readers return ----------------------- *)

\* C20 as stated: every call of read_audio_slice and read_audio_to_buffer
\* terminates, with the samples collected or with a failure, also when bus
\* transfers report success with less than one whole frame
C20_Original == <>(pc \in { "read_ok", "read_failed" })

(* ------------------ C21: a disconnect during the stream ---------------- *)

\* send_audio_stream is past its entry test and has not returned
StreamRunning == pc \in { "stream_start", "stream_alloc", "stream_chunk" }

\* C21: once send_audio_stream is past its entry test, a disconnect event
\* that clears the ready flag changes nothing of the call, the call never
\* leaves through the not-ready exit, and a stream that ends short of
\* sample_count ends by a rejected send (or a failed allocation)
C21_NoCancelByDisconnect ==
    [][ StreamRunning =>
          /\ stream_exit' # "not_ready"
          /\ (ws_connected /\ ~ws_connected') => (pc' = pc /\ UNCHANGED streamVars)
          /\ (pc' = "stream_return" /\ ~sent') =>
                stream_exit' \in { "start_rejected", "no_memory", "chunk_rejected" }
      ]_vars

\* a stream that began with the flag set ran to its last chunk although the
\* flag was cleared on the way
C21_Witness ==
    /\ pc = "stream_return"
    /\ ~ws_connected
    /\ sent
    /\ stream_exit = "loop_end"
    /\ Len(wire) > 1
    /\ wire[1].type = "audio_start"
    /\ wire[Len(wire)].type = "audio_chunk"

(* --------------- C22: the stream called while not connected ------------ *)

\* the alert and the capture of this wake event are complete
AlertedAndCaptured ==
    /\ wake_word_detected
    /\ blink_k = ALERT_PULSES
    /\ success
    /\ samples_read = AUDIO_SAMPLES_3S
    /\ Len(bus_log) = AUDIO_SAMPLES_3S
    /\ recording_complete
    /\ recording_samples = AUDIO_SAMPLES_3S
    /\ \A j \in 1 .. AUDIO_SAMPLES_3S : recording_buffer[j] = bus_log[j] \div 2048

\* C22: a call of send_audio_stream that finds no client or the ready flag
\* false returns false without sending any message, and the alert and the
\* full capture of that wake event have taken place before it
C22_NoSendWhenNotReady ==
    /\ [](stream_exit = "not_ready" =>
            /\ pc \in { "stream_return", "cooldown" }
            /\ wire = << >>
            /\ ~sent
            /\ AlertedAndCaptured)
    /\ [][ (pc = "stream_entry" /\ pc' # pc /\ (~ws_client \/ ~ws_connected)) =>
            /\ pc' = "stream_return"
            /\ stream_exit' = "not_ready"
            /\ wire' = << >>
            /\ ~sent'
      ]_vars

\* a wake event whose stream call found a client but the ready flag false
C22_Witness ==
    /\ pc = "stream_return"
    /\ stream_exit = "not_ready"
    /\ ws_client
    /\ ~ws_connected
    /\ wire = << >>
    /\ AlertedAndCaptured

(* ------------------- C23: the readers stay in their buffers ------------ *)

\* C23: in read_audio_slice and read_audio_to_buffer the count of collected
\* samples never exceeds the requested count, so every write index
\* samples_read + i lies inside the slice buffer and the recording buffer,
\* for every split of the span into full or short transfers
C23_WritesInBounds ==
    /\ [](/\ samples_read <= Len(ei_slice_buffer)
          /\ samples_read <= Len(recording_buffer)
          /\ Len(bus_log) = samples_read)
    /\ [][ /\ samples_read' >= samples_read
           /\ \A i \in 0 .. (samples_read' - samples_read) - 1 :
                /\ samples_read + i < Len(ei_slice_buffer)
                /\ samples_read + i < Len(recording_buffer)
           /\ Len(ei_slice_buffer') = Len(ei_slice_buffer)
           /\ Len(recording_buffer') = Len(recording_buffer)
      ]_vars

\* a span of three samples collected with chunks of two: the last pass had
\* less than a chunk left to ask for
C23_Witness ==
    /\ pc = "read_ok"
    /\ chunk_frames = 2
    /\ Len(recording_buffer) = 3
    /\ samples_read = 3
    /\ Len(bus_log) = 3

====
